---- MODULE Spec2Model ----
(***************************************************************************)
(* The action layer of creative-title-maker (src/src/actions/index.ts)     *)
(* over its two tables (src/unnamed/part_000).                             *)
(*                                                                         *)
(* A step of the model is one store statement of one handler together with *)
(* the local computation that precedes it: a call step parses the input    *)
(* against the action's schema (defineAction runs the handler on the       *)
(* parsed input, so the schema is applied before the handler's first       *)
(* line), runs requireUser, and issues the handler's first statement.      *)
(* Every later `await db...` of the handler is a step of its own, so that  *)
(* the statements of concurrent requests interleave.  The step that ends a *)
(* handler leaves its response in resp, with the store statement that step *)
(* ran; the caller takes it (Return) before the next step.                 *)
(*                                                                         *)
(* Each specification draws its requests from a workload: Spec lets time   *)
(* pass between the requests of one user; the others run within one        *)
(* reading of the clock and vary the flags of ideas, the overlap of        *)
(* requests of two users, or the validity of inputs and the caller's       *)
(* identity.                                                               *)
(***************************************************************************)
EXTENDS Bags, FiniteSets, Integers, Sequences, TLC

\* ------------------------------------------------------------- bounds
MaxRows == 3       \* rows ever inserted, both tables together
MaxClock == 1      \* readings of the wall clock are 0..MaxClock
MaxInFlight == 2   \* handlers suspended at an await at the same time

\* ------------------------------------------------------------- values
Users == {"A", "B"}
NoUser == "<no user>"       \* context.locals.user is undefined
Callers == Users \cup {NoUser}
NULL == "<NULL>"            \* an optional column that holds no value
NoFields == [f \in {} |-> ""]   \* an input object with no key supplied

\* A key is supplied when `input.key !== undefined`.
Supplied(input, f) == f \in DOMAIN input

\* An undefined value inserted into an optional column is stored as NULL.
OrNull(input, f) == IF Supplied(input, f) THEN input[f] ELSE NULL

\* `input.key ?? dflt`, and zod's .default(dflt).
OrDefault(input, f, dflt) == IF Supplied(input, f) THEN input[f] ELSE dflt

SessionFields ==
  {"contentType", "workingTitle", "topic", "targetAudience", "language", "notes"}
IdeaFields == {"titleText", "tone", "style", "isFavorite", "isSelected"}

\* crypto.randomUUID(): the n-th identifier drawn for a table, never drawn again.
SessionUUID(n) == "s" \o ToString(n)
IdeaUUID(n) == "i" \o ToString(n)

VARIABLES
  TitleSessions,  \* the TitleSessions table: its rows in insertion order
  TitleIdeas,     \* the TitleIdeas table: its rows in insertion order
  ideaCount,      \* idea identifiers drawn so far
  clock,          \* what new Date() returns
  pending,        \* bag of handlers suspended at an await, each with its next statement
  resp            \* the response a handler has just returned or thrown, if any

vars == <<TitleSessions, TitleIdeas, ideaCount, clock, pending, resp>>

\* ---------------------------------------------------------- responses
\* A response names the call it answers, the code (OK for `success: true`, else
\* the error's code), the rows in its data, and the store statement that the
\* handler's last step executed ("none" when it answered before any).
NoResp ==
  [op |-> "none", user |-> NoUser, input |-> NoFields, code |-> "none",
   data |-> <<>>, stmt |-> "none"]
Response(op, user, input, code, data, stmt) ==
  [op |-> op, user |-> user, input |-> input, code |-> code, data |-> data, stmt |-> stmt]
Idle == resp.op = "none"

\* `const [row] = rows`: the first row, or undefined (no row) when there is none.
FirstOf(rows) == IF rows = <<>> THEN <<>> ELSE <<rows[1]>>

Suspended(op, user, input, next) == [op |-> op, user |-> user, input |-> input, next |-> next]
Await(h) == pending (+) SetToBag({h})
Resume(h) == pending (-) SetToBag({h})
InFlight == BagCardinality(pending)
Inserting == {h \in BagToSet(pending) : h.next = "insert TitleIdeas"}
RowsClaimed ==
  Len(TitleSessions) + ideaCount + BagCardinality([h \in Inserting |-> pending[h]])

\* ------------------------------------------------------------ schemas
ValidUpdateTitleSession(input) ==
  /\ input.id # ""
  /\ \E f \in SessionFields : Supplied(input, f)

ValidCreateTitleIdea(input) ==
  /\ input.sessionId # ""
  /\ input.titleText # ""

\* The updateTitleIdea schema without its "at least one field" refinement.
ValidUpdateTitleIdea_NoRefine(input) ==
  /\ input.id # ""
  /\ input.sessionId # ""

ValidUpdateTitleIdea(input) ==
  /\ input.id # ""
  /\ input.sessionId # ""
  /\ \E f \in IdeaFields : Supplied(input, f)

ValidDeleteTitleIdea(input) ==
  /\ input.id # ""
  /\ input.sessionId # ""

ValidListTitleIdeas(input) == input.sessionId # ""

\* defineAction parses the input with the action's schema and runs the handler on
\* the parsed value. The two schemas of optional strings accept every input drawn here.
Schema(op, input) ==
  CASE op = "updateTitleSession" -> ValidUpdateTitleSession(input)
    [] op = "createTitleIdea" -> ValidCreateTitleIdea(input)
    [] op = "updateTitleIdea" -> ValidUpdateTitleIdea(input)
    [] op = "deleteTitleIdea" -> ValidDeleteTitleIdea(input)
    [] op = "listTitleIdeas" -> ValidListTitleIdeas(input)
    [] OTHER -> TRUE

\* requireUser that lets a request with no user through.
requireUser_Skipped(user) == TRUE

\* requireUser: is there a user in the request's context?
requireUser(user) == user # NoUser

\* --------------------------------------------------------- statements
\* getOwnedSession that selects by id alone.
getOwnedSession_AnyOwner(sessionId, userId) ==
  SelectSeq(TitleSessions, LAMBDA s : s.id = sessionId)

\* select from TitleSessions where id = sessionId and userId = userId
getOwnedSession(sessionId, userId) ==
  SelectSeq(TitleSessions, LAMBDA s : s.id = sessionId /\ s.userId = userId)

\* A set clause that writes every key, supplied or not.
SetSupplied_WritesAll(row, input, fields) ==
  [c \in DOMAIN row |-> IF c \in fields THEN OrNull(input, c) ELSE row[c]]

\* The row with the supplied keys of the input overwritten.
SetSupplied(row, input, fields) ==
  [c \in DOMAIN row |-> IF c \in fields /\ Supplied(input, c) THEN input[c] ELSE row[c]]

\* update TitleSessions set <supplied>, updatedAt = now where id = input.id
SessionsAfterUpdate(input, now) ==
  [k \in DOMAIN TitleSessions |->
     IF TitleSessions[k].id = input.id
       THEN [SetSupplied(TitleSessions[k], input, SessionFields) EXCEPT !.updatedAt = now]
       ELSE TitleSessions[k]]

\* select from TitleSessions where userId = userId
SessionsOfUser(userId) == SelectSeq(TitleSessions, LAMBDA s : s.userId = userId)

\* select from TitleIdeas where id = input.id and sessionId = input.sessionId
ExistingIdea(input) ==
  SelectSeq(TitleIdeas, LAMBDA i : i.id = input.id /\ i.sessionId = input.sessionId)

\* An update that keeps isSelected unique in the session: selecting one idea
\* deselects the others.
IdeasAfterUpdate_Exclusive(input) ==
  [k \in DOMAIN TitleIdeas |->
     IF TitleIdeas[k].id = input.id
       THEN [c \in DOMAIN TitleIdeas[k] |->
               IF c \in IdeaFields /\ Supplied(input, c) THEN input[c] ELSE TitleIdeas[k][c]]
       ELSE IF Supplied(input, "isSelected") /\ input.isSelected
                 /\ TitleIdeas[k].sessionId = input.sessionId
              THEN [TitleIdeas[k] EXCEPT !.isSelected = FALSE]
              ELSE TitleIdeas[k]]

\* update TitleIdeas set <supplied> where id = input.id
IdeasAfterUpdate(input) ==
  [k \in DOMAIN TitleIdeas |->
     IF TitleIdeas[k].id = input.id
       THEN SetSupplied(TitleIdeas[k], input, IdeaFields)
       ELSE TitleIdeas[k]]

\* A delete by id alone.
IdeasAfterDelete_AnySession(input) ==
  SelectSeq(TitleIdeas, LAMBDA i : i.id # input.id)

\* delete from TitleIdeas where id = input.id and sessionId = input.sessionId
IdeasAfterDelete(input) ==
  SelectSeq(TitleIdeas, LAMBDA i : ~(i.id = input.id /\ i.sessionId = input.sessionId))

\* A list whose two flags widen the result instead of narrowing it.
IdeasListed_Union(sessionId, favoritesOnly, selectedOnly) ==
  SelectSeq(TitleIdeas, LAMBDA i :
    /\ i.sessionId = sessionId
    /\ (favoritesOnly \/ selectedOnly) =>
         ((favoritesOnly /\ i.isFavorite) \/ (selectedOnly /\ i.isSelected)))

\* select from TitleIdeas where sessionId = .. [and isFavorite] [and isSelected]
IdeasListed(sessionId, favoritesOnly, selectedOnly) ==
  SelectSeq(TitleIdeas, LAMBDA i :
    /\ i.sessionId = sessionId
    /\ (favoritesOnly => i.isFavorite)
    /\ (selectedOnly => i.isSelected))

\* ---------------------------------------------------------- workloads
\* The requests a specification draws from: who calls, with which inputs, and
\* whether a handler may start while another is suspended at an await.
SessionIds == {TitleSessions[k].id : k \in DOMAIN TitleSessions}
IdeaIdsDrawn == {IdeaUUID(n) : n \in 1..ideaCount}

Sequential ==
  [callers |-> {"A"},
   sessionInputs |-> {[workingTitle |-> "draft", topic |-> "tips"]},
   sessionPatches |-> {[workingTitle |-> "final"]},
   sessionIds |-> {},
   titleTexts |-> {"Top 10 Tips"},
   ideaOptions |-> {NoFields, [tone |-> "catchy", isSelected |-> TRUE]},
   ideaPatches |-> {[titleText |-> "Ten Tips", isSelected |-> FALSE]},
   ideaIds |-> {},
   listOptions |-> {NoFields},
   overlap |-> FALSE]

Flags ==
  [callers |-> {"A"},
   sessionInputs |-> {NoFields},
   sessionPatches |-> {[notes |-> "n"]},
   sessionIds |-> {},
   titleTexts |-> {"Top 10 Tips"},
   ideaOptions |-> {NoFields, [isSelected |-> TRUE]},
   ideaPatches |-> {[isFavorite |-> TRUE], [isSelected |-> TRUE]},
   ideaIds |-> {"i0"},
   listOptions |-> {NoFields, [favoritesOnly |-> TRUE], [selectedOnly |-> TRUE],
                    [favoritesOnly |-> TRUE, selectedOnly |-> TRUE]},
   overlap |-> FALSE]

OverlappingIdeas ==
  [callers |-> {"A", "B"},
   sessionInputs |-> {NoFields},
   sessionPatches |-> {},
   sessionIds |-> {"s0"},
   titleTexts |-> {"Top 10 Tips"},
   ideaOptions |-> {NoFields},
   ideaPatches |-> {[isFavorite |-> TRUE]},
   ideaIds |-> {},
   listOptions |-> {NoFields},
   overlap |-> TRUE]

OverlappingSessions ==
  [callers |-> {"A", "B"},
   sessionInputs |-> {NoFields, [workingTitle |-> "draft"]},
   sessionPatches |-> {[workingTitle |-> "final"]},
   sessionIds |-> {"s0"},
   titleTexts |-> {},
   ideaOptions |-> {},
   ideaPatches |-> {},
   ideaIds |-> {},
   listOptions |-> {},
   overlap |-> TRUE]

MalformedAndAnonymous ==
  [callers |-> {"A", NoUser},
   sessionInputs |-> {NoFields},
   sessionPatches |-> {NoFields, [notes |-> "n"]},
   sessionIds |-> {""},
   titleTexts |-> {"", "Top 10 Tips"},
   ideaOptions |-> {NoFields},
   ideaPatches |-> {NoFields, [titleText |-> ""], [isFavorite |-> TRUE]},
   ideaIds |-> {""},
   listOptions |-> {NoFields},
   overlap |-> FALSE]

Limit(W) == IF W.overlap THEN MaxInFlight ELSE 1

\* -------------------------------------------------------------- state
Init ==
  /\ TitleSessions = <<>>
  /\ TitleIdeas = <<>>
  /\ ideaCount = 0
  /\ clock = 0
  /\ pending = EmptyBag
  /\ resp = NoResp

\* Time passes.
Tick ==
  /\ Idle
  /\ clock < MaxClock
  /\ clock' = clock + 1
  /\ UNCHANGED <<TitleSessions, TitleIdeas, ideaCount, pending, resp>>

\* The caller takes the response.
Return ==
  /\ ~Idle
  /\ resp' = NoResp
  /\ UNCHANGED <<TitleSessions, TitleIdeas, ideaCount, clock, pending>>

\* A step that answers its caller without touching the store.
Reject(op, user, input, code) ==
  /\ resp' = Response(op, user, input, code, <<>>, "none")
  /\ UNCHANGED <<TitleSessions, TitleIdeas, ideaCount, clock, pending>>

\* The call step of a handler that opens with requireUser and getOwnedSession.
GuardedCall(W, op, user, input, sessionId, next) ==
  /\ Idle
  /\ IF ~Schema(op, input) THEN Reject(op, user, input, "BAD_REQUEST")
     ELSE IF ~requireUser(user) THEN Reject(op, user, input, "UNAUTHORIZED")
     ELSE /\ UNCHANGED <<TitleSessions, TitleIdeas, ideaCount, clock>>
          /\ IF getOwnedSession(sessionId, user) = <<>>
               THEN /\ resp' = Response(op, user, input, "NOT_FOUND", <<>>,
                                        "select TitleSessions")
                    /\ UNCHANGED pending
               ELSE /\ InFlight < Limit(W)
                    /\ next = "insert TitleIdeas" => RowsClaimed < MaxRows
                    /\ pending' = Await(Suspended(op, user, input, next))
                    /\ resp' = NoResp

createTitleSession(W) ==
  \E user \in W.callers, input \in W.sessionInputs :
    /\ Idle
    /\ IF ~Schema("createTitleSession", input)
         THEN Reject("createTitleSession", user, input, "BAD_REQUEST")
       ELSE IF ~requireUser(user)
         THEN Reject("createTitleSession", user, input, "UNAUTHORIZED")
       ELSE /\ RowsClaimed < MaxRows
            /\ LET session ==
                     [f \in SessionFields |-> OrNull(input, f)] @@
                     [id |-> SessionUUID(Len(TitleSessions) + 1), userId |-> user,
                      createdAt |-> clock, updatedAt |-> clock]
               IN /\ TitleSessions' = Append(TitleSessions, session)
                  /\ resp' = Response("createTitleSession", user, input, "OK",
                                      <<session>>, "insert TitleSessions")
            /\ UNCHANGED <<TitleIdeas, ideaCount, clock, pending>>

\* updateTitleSession: the schema, requireUser and getOwnedSession(input.id, user.id).
updateTitleSessionCall(W) ==
  \E user \in W.callers, id \in SessionIds \cup W.sessionIds, patch \in W.sessionPatches :
    LET input == [id |-> id] @@ patch
    IN GuardedCall(W, "updateTitleSession", user, input,
                   input.id, "update TitleSessions")

\* updateTitleSession: the update by id, returning the rows it changed.
updateTitleSessionWrite ==
  \E h \in BagToSet(pending) :
    /\ Idle
    /\ h.op = "updateTitleSession"
    /\ h.next = "update TitleSessions"
    /\ TitleSessions' = SessionsAfterUpdate(h.input, clock)
    /\ resp' = Response(h.op, h.user, h.input, "OK",
                        FirstOf(SelectSeq(TitleSessions', LAMBDA s : s.id = h.input.id)),
                        "update TitleSessions")
    /\ pending' = Resume(h)
    /\ UNCHANGED <<TitleIdeas, ideaCount, clock>>

listTitleSessions(W) ==
  \E user \in W.callers :
    /\ Idle
    /\ IF ~Schema("listTitleSessions", NoFields)
         THEN Reject("listTitleSessions", user, NoFields, "BAD_REQUEST")
       ELSE IF ~requireUser(user)
         THEN Reject("listTitleSessions", user, NoFields, "UNAUTHORIZED")
       ELSE /\ resp' = Response("listTitleSessions", user, NoFields, "OK",
                                SessionsOfUser(user), "select TitleSessions")
            /\ UNCHANGED <<TitleSessions, TitleIdeas, ideaCount, clock, pending>>

\* createTitleIdea: the schema, requireUser and getOwnedSession(input.sessionId, user.id).
createTitleIdeaCall(W) ==
  \E user \in W.callers, sessionId \in SessionIds \cup W.sessionIds,
     titleText \in W.titleTexts, options \in W.ideaOptions :
    LET input == [sessionId |-> sessionId, titleText |-> titleText] @@ options
    IN GuardedCall(W, "createTitleIdea", user, input,
                   input.sessionId, "insert TitleIdeas")

\* createTitleIdea: the insert, returning the new row.
createTitleIdeaInsert ==
  \E h \in BagToSet(pending) :
    /\ Idle
    /\ h.op = "createTitleIdea"
    /\ h.next = "insert TitleIdeas"
    /\ LET idea ==
             [id |-> IdeaUUID(ideaCount + 1),
              sessionId |-> h.input.sessionId,
              titleText |-> h.input.titleText,
              tone |-> OrNull(h.input, "tone"),
              style |-> OrNull(h.input, "style"),
              isFavorite |-> OrDefault(h.input, "isFavorite", FALSE),
              isSelected |-> OrDefault(h.input, "isSelected", FALSE),
              createdAt |-> clock]
       IN /\ TitleIdeas' = Append(TitleIdeas, idea)
          /\ resp' = Response(h.op, h.user, h.input, "OK", <<idea>>, "insert TitleIdeas")
    /\ ideaCount' = ideaCount + 1
    /\ pending' = Resume(h)
    /\ UNCHANGED <<TitleSessions, clock>>

\* updateTitleIdea: the schema, requireUser and getOwnedSession(input.sessionId, user.id).
updateTitleIdeaCall(W) ==
  \E user \in W.callers, id \in IdeaIdsDrawn \cup W.ideaIds,
     sessionId \in SessionIds \cup W.sessionIds, patch \in W.ideaPatches :
    LET input == [id |-> id, sessionId |-> sessionId] @@ patch
    IN GuardedCall(W, "updateTitleIdea", user, input,
                   input.sessionId, "select TitleIdeas")

\* updateTitleIdea: the read of the idea by id and sessionId.
updateTitleIdeaSelect ==
  \E h \in BagToSet(pending) :
    /\ Idle
    /\ h.op = "updateTitleIdea"
    /\ h.next = "select TitleIdeas"
    /\ IF ExistingIdea(h.input) = <<>>
         THEN /\ resp' = Response(h.op, h.user, h.input, "NOT_FOUND", <<>>,
                                  "select TitleIdeas")
              /\ pending' = Resume(h)
         ELSE /\ resp' = NoResp
              /\ pending' = Resume(h) (+)
                              SetToBag({Suspended(h.op, h.user, h.input, "update TitleIdeas")})
    /\ UNCHANGED <<TitleSessions, TitleIdeas, ideaCount, clock>>

\* updateTitleIdea: the update by id, returning the rows it changed.
updateTitleIdeaWrite ==
  \E h \in BagToSet(pending) :
    /\ Idle
    /\ h.op = "updateTitleIdea"
    /\ h.next = "update TitleIdeas"
    /\ TitleIdeas' = IdeasAfterUpdate(h.input)
    /\ resp' = Response(h.op, h.user, h.input, "OK",
                        FirstOf(SelectSeq(TitleIdeas', LAMBDA i : i.id = h.input.id)),
                        "update TitleIdeas")
    /\ pending' = Resume(h)
    /\ UNCHANGED <<TitleSessions, ideaCount, clock>>

\* deleteTitleIdea: the schema, requireUser and getOwnedSession(input.sessionId, user.id).
deleteTitleIdeaCall(W) ==
  \E user \in W.callers, id \in IdeaIdsDrawn \cup W.ideaIds,
     sessionId \in SessionIds \cup W.sessionIds :
    LET input == [id |-> id, sessionId |-> sessionId]
    IN GuardedCall(W, "deleteTitleIdea", user, input,
                   input.sessionId, "delete TitleIdeas")

\* deleteTitleIdea: the delete by id and sessionId, and the test of rowsAffected.
deleteTitleIdeaDelete ==
  \E h \in BagToSet(pending) :
    /\ Idle
    /\ h.op = "deleteTitleIdea"
    /\ h.next = "delete TitleIdeas"
    /\ TitleIdeas' = IdeasAfterDelete(h.input)
    /\ LET rowsAffected == Len(TitleIdeas) - Len(TitleIdeas')
       IN resp' = Response(h.op, h.user, h.input,
                           IF rowsAffected = 0 THEN "NOT_FOUND" ELSE "OK", <<>>,
                           "delete TitleIdeas")
    /\ pending' = Resume(h)
    /\ UNCHANGED <<TitleSessions, ideaCount, clock>>

\* listTitleIdeas: the schema, requireUser and getOwnedSession(input.sessionId, user.id).
listTitleIdeasCall(W) ==
  \E user \in W.callers, sessionId \in SessionIds \cup W.sessionIds,
     options \in W.listOptions :
    LET input == [sessionId |-> sessionId] @@ options
    IN GuardedCall(W, "listTitleIdeas", user, input,
                   input.sessionId, "select TitleIdeas")

\* listTitleIdeas: the filtered select.
listTitleIdeasSelect ==
  \E h \in BagToSet(pending) :
    /\ Idle
    /\ h.op = "listTitleIdeas"
    /\ h.next = "select TitleIdeas"
    /\ resp' = Response(h.op, h.user, h.input, "OK",
                        IdeasListed(h.input.sessionId,
                                    OrDefault(h.input, "favoritesOnly", FALSE),
                                    OrDefault(h.input, "selectedOnly", FALSE)),
                        "select TitleIdeas")
    /\ pending' = Resume(h)
    /\ UNCHANGED <<TitleSessions, TitleIdeas, ideaCount, clock>>

\* ----------------------------------------------------- specifications
\* One request at a time, by one user, while time passes.
Next ==
  \/ Tick
  \/ Return
  \/ createTitleSession(Sequential)
  \/ updateTitleSessionCall(Sequential)
  \/ updateTitleSessionWrite
  \/ listTitleSessions(Sequential)
  \/ createTitleIdeaCall(Sequential)
  \/ createTitleIdeaInsert
  \/ updateTitleIdeaCall(Sequential)
  \/ updateTitleIdeaSelect
  \/ updateTitleIdeaWrite
  \/ deleteTitleIdeaCall(Sequential)
  \/ deleteTitleIdeaDelete
  \/ listTitleIdeasCall(Sequential)
  \/ listTitleIdeasSelect

Spec == Init /\ [][Next]_vars

\* One request at a time, by one user, on ideas that differ in their flags.
NextFlags ==
  \/ Return
  \/ createTitleSession(Flags)
  \/ updateTitleSessionCall(Flags)
  \/ updateTitleSessionWrite
  \/ listTitleSessions(Flags)
  \/ createTitleIdeaCall(Flags)
  \/ createTitleIdeaInsert
  \/ updateTitleIdeaCall(Flags)
  \/ updateTitleIdeaSelect
  \/ updateTitleIdeaWrite
  \/ deleteTitleIdeaCall(Flags)
  \/ deleteTitleIdeaDelete
  \/ listTitleIdeasCall(Flags)
  \/ listTitleIdeasSelect

SpecFlags == Init /\ [][NextFlags]_vars

\* Overlapping idea requests by two users, each on its own and the other's sessions.
NextIdeas ==
  \/ Return
  \/ createTitleSession(OverlappingIdeas)
  \/ createTitleIdeaCall(OverlappingIdeas)
  \/ createTitleIdeaInsert
  \/ updateTitleIdeaCall(OverlappingIdeas)
  \/ updateTitleIdeaSelect
  \/ updateTitleIdeaWrite
  \/ deleteTitleIdeaCall(OverlappingIdeas)
  \/ deleteTitleIdeaDelete
  \/ listTitleIdeasCall(OverlappingIdeas)
  \/ listTitleIdeasSelect

SpecIdeas == Init /\ [][NextIdeas]_vars

\* Overlapping session requests by two users.
NextSessions ==
  \/ Return
  \/ createTitleSession(OverlappingSessions)
  \/ updateTitleSessionCall(OverlappingSessions)
  \/ updateTitleSessionWrite
  \/ listTitleSessions(OverlappingSessions)

SpecSessions == Init /\ [][NextSessions]_vars

\* One request at a time, by a user or by a caller with no identity, with inputs
\* that the schemas reject among them.
NextInputs ==
  \/ Return
  \/ createTitleSession(MalformedAndAnonymous)
  \/ updateTitleSessionCall(MalformedAndAnonymous)
  \/ updateTitleSessionWrite
  \/ listTitleSessions(MalformedAndAnonymous)
  \/ createTitleIdeaCall(MalformedAndAnonymous)
  \/ createTitleIdeaInsert
  \/ updateTitleIdeaCall(MalformedAndAnonymous)
  \/ updateTitleIdeaSelect
  \/ updateTitleIdeaWrite
  \/ deleteTitleIdeaCall(MalformedAndAnonymous)
  \/ deleteTitleIdeaDelete
  \/ listTitleIdeasCall(MalformedAndAnonymous)
  \/ listTitleIdeasSelect

SpecInputs == Init /\ [][NextInputs]_vars

\* ------------------------------------------------------------- claims
RowsOf(table) == {table[k] : k \in DOMAIN table}
IdsOf(table) == {table[k].id : k \in DOMAIN table}
IdeaOps == {"createTitleIdea", "updateTitleIdea", "deleteTitleIdea", "listTitleIdeas"}
Owns(user, sessionId) ==
  \E s \in RowsOf(TitleSessions) : s.id = sessionId /\ s.userId = user
Matching(input) ==
  {i \in RowsOf(TitleIdeas) : i.id = input.id /\ i.sessionId = input.sessionId}

\* C1: an idea operation by a signed-in caller, with a valid input whose sessionId
\* names no session of the caller (no such session, or someone else's), answers
\* NOT_FOUND with no data and leaves every row of both tables as it was.
C1_NotOwnedSessionIsNotFound ==
  [][(/\ resp'.op \in IdeaOps
      /\ resp'.user \in Users
      /\ Schema(resp'.op, resp'.input)
      /\ ~Owns(resp'.user, resp'.input.sessionId))
     => /\ resp'.code = "NOT_FOUND"
        /\ resp'.data = <<>>
        /\ TitleIdeas' = TitleIdeas
        /\ TitleSessions' = TitleSessions]_vars

\* C1 witness: a delete of an existing idea is refused because its session is
\* another user's, while another handler is in flight.
C1_Witness ==
  /\ resp.op = "deleteTitleIdea"
  /\ resp.code = "NOT_FOUND"
  /\ Matching(resp.input) # {}
  /\ \E s \in RowsOf(TitleSessions) : s.id = resp.input.sessionId /\ s.userId # resp.user
  /\ pending # EmptyBag

\* C2: listTitleSessions returns exactly the caller's sessions, each once; an
\* updateTitleSession by anyone but the owner answers NOT_FOUND and changes no
\* session; a session changes only in its owner's update of it.
C2_SessionsOnlyForTheirOwner ==
  [][/\ (resp'.op = "listTitleSessions" /\ resp'.user \in Users)
        => LET mine == {s \in RowsOf(TitleSessions) : s.userId = resp'.user}
           IN /\ resp'.code = "OK"
              /\ RowsOf(resp'.data) = mine
              /\ Len(resp'.data) = Cardinality(mine)
     /\ (/\ resp'.op = "updateTitleSession"
         /\ resp'.user \in Users
         /\ ~Owns(resp'.user, resp'.input.id))
        => /\ resp'.code = "NOT_FOUND"
           /\ TitleSessions' = TitleSessions
     /\ \A k \in DOMAIN TitleSessions :
          TitleSessions'[k] # TitleSessions[k]
            => /\ resp'.op = "updateTitleSession"
               /\ resp'.user = TitleSessions[k].userId
               /\ resp'.input.id = TitleSessions[k].id]_vars

\* C2 witness: a user's update of another user's session is refused while the
\* owner's own update of that session is in flight.
C2_Witness ==
  /\ resp.op = "updateTitleSession"
  /\ resp.code = "NOT_FOUND"
  /\ \E s \in RowsOf(TitleSessions) :
       /\ s.id = resp.input.id
       /\ s.userId # resp.user
       /\ \E h \in BagToSet(pending) : h.input.id = s.id /\ h.user = s.userId

\* C3: a successful update changes, on the one row it names, exactly the
\* supplied fields, to the supplied values; id, userId and createdAt of a session
\* and id, sessionId and createdAt of an idea stay; every other row stays; a
\* session update sets updatedAt to the current time, an idea update no timestamp.
C3_UpdateChangesOnlySuppliedFields ==
  [][/\ (resp'.op = "updateTitleSession" /\ resp'.code = "OK")
        => /\ TitleIdeas' = TitleIdeas
           /\ DOMAIN TitleSessions' = DOMAIN TitleSessions
           /\ Cardinality({k \in DOMAIN TitleSessions :
                             TitleSessions[k].id = resp'.input.id}) = 1
           /\ \A k \in DOMAIN TitleSessions :
                IF TitleSessions[k].id = resp'.input.id
                  THEN /\ \A f \in SessionFields :
                            TitleSessions'[k][f] =
                              IF f \in DOMAIN resp'.input THEN resp'.input[f]
                              ELSE TitleSessions[k][f]
                       /\ TitleSessions'[k].id = TitleSessions[k].id
                       /\ TitleSessions'[k].userId = TitleSessions[k].userId
                       /\ TitleSessions'[k].createdAt = TitleSessions[k].createdAt
                       /\ TitleSessions'[k].updatedAt = clock
                       /\ resp'.data = <<TitleSessions'[k]>>
                  ELSE TitleSessions'[k] = TitleSessions[k]
     /\ (resp'.op = "updateTitleIdea" /\ resp'.code = "OK")
        => /\ TitleSessions' = TitleSessions
           /\ DOMAIN TitleIdeas' = DOMAIN TitleIdeas
           /\ Cardinality({k \in DOMAIN TitleIdeas :
                             TitleIdeas[k].id = resp'.input.id}) = 1
           /\ \A k \in DOMAIN TitleIdeas :
                IF TitleIdeas[k].id = resp'.input.id
                  THEN /\ \A f \in IdeaFields :
                            TitleIdeas'[k][f] =
                              IF f \in DOMAIN resp'.input THEN resp'.input[f]
                              ELSE TitleIdeas[k][f]
                       /\ TitleIdeas'[k].id = TitleIdeas[k].id
                       /\ TitleIdeas'[k].sessionId = TitleIdeas[k].sessionId
                       /\ TitleIdeas'[k].createdAt = TitleIdeas[k].createdAt
                       /\ resp'.data = <<TitleIdeas'[k]>>
                  ELSE TitleIdeas'[k] = TitleIdeas[k]]_vars

\* C3 witness: of two sessions one was updated after its creation: its
\* workingTitle is the supplied one, its topic the old one, its updatedAt later
\* than its createdAt.
C3_Witness ==
  /\ resp.op = "updateTitleSession"
  /\ resp.code = "OK"
  /\ Len(TitleSessions) >= 2
  /\ Len(resp.data) = 1
  /\ resp.data[1].workingTitle = "final"
  /\ resp.data[1].topic = "tips"
  /\ resp.data[1].updatedAt > resp.data[1].createdAt

\* C4: an updateTitleSession or updateTitleIdea with none of its optional fields,
\* and a createTitleIdea with an empty titleText, are answered with a validation
\* error by a step that runs no store statement and leaves the store as it was.
C4_InvalidInputRejectedBeforeStore ==
  [][(\/ /\ resp'.op = "updateTitleSession"
         /\ DOMAIN resp'.input \cap SessionFields = {}
      \/ /\ resp'.op = "updateTitleIdea"
         /\ DOMAIN resp'.input \cap IdeaFields = {}
      \/ /\ resp'.op = "createTitleIdea"
         /\ resp'.input.titleText = "")
     => /\ resp'.code = "BAD_REQUEST"
        /\ resp'.stmt = "none"
        /\ resp'.data = <<>>
        /\ TitleSessions' = TitleSessions
        /\ TitleIdeas' = TitleIdeas]_vars

\* C4 witness: the owner's update of an existing idea of theirs, with no field
\* to change, is answered with the validation error.
C4_Witness ==
  /\ resp.op = "updateTitleIdea"
  /\ resp.code = "BAD_REQUEST"
  /\ resp.user \in Users
  /\ Owns(resp.user, resp.input.sessionId)
  /\ Matching(resp.input) # {}
  /\ DOMAIN resp.input \cap IdeaFields = {}

\* C5: a deleteTitleIdea that reaches its delete statement answers NOT_FOUND and
\* deletes nothing when no idea has that id under that session; otherwise it
\* answers OK, removes that idea and no other, and the session's ideas are one
\* fewer. A removed idea never returns: its id is never stored again, an update
\* of it answers NOT_FOUND, and no list returns a row that is not stored.
C5_DeleteRemovesExactlyThatIdea ==
  [][/\ (resp'.op = "deleteTitleIdea" /\ resp'.stmt = "delete TitleIdeas")
        => LET gone == Matching(resp'.input)
               InSession(table) ==
                 {i \in RowsOf(table) : i.sessionId = resp'.input.sessionId}
           IN IF gone = {}
                THEN /\ resp'.code = "NOT_FOUND"
                     /\ TitleIdeas' = TitleIdeas
                ELSE /\ resp'.code = "OK"
                     /\ RowsOf(TitleIdeas') = RowsOf(TitleIdeas) \ gone
                     /\ Len(TitleIdeas') = Len(TitleIdeas) - 1
                     /\ Cardinality(InSession(TitleIdeas')) =
                          Cardinality(InSession(TitleIdeas)) - 1
     /\ (resp'.op = "deleteTitleIdea" /\ resp'.user \in Users
           /\ Schema(resp'.op, resp'.input) /\ Owns(resp'.user, resp'.input.sessionId))
        => resp'.stmt = "delete TitleIdeas"
     /\ \A n \in 1..ideaCount :
          IdeaUUID(n) \notin IdsOf(TitleIdeas) => IdeaUUID(n) \notin IdsOf(TitleIdeas')
     /\ (resp'.op = "updateTitleIdea" /\ resp'.input.id \notin IdsOf(TitleIdeas)
           /\ Schema(resp'.op, resp'.input) /\ resp'.user \in Users)
        => resp'.code = "NOT_FOUND"
     /\ (resp'.op = "listTitleIdeas")
        => RowsOf(resp'.data) \subseteq RowsOf(TitleIdeas')]_vars

\* C5 witness: one of a session's ideas was deleted and another one is still there.
C5_Witness ==
  /\ resp.op = "deleteTitleIdea"
  /\ resp.code = "OK"
  /\ resp.input.id \notin IdsOf(TitleIdeas)
  /\ \E i \in RowsOf(TitleIdeas) : i.sessionId = resp.input.sessionId

\* C6: a listTitleIdeas of the owner returns exactly the stored ideas of the
\* session that are favorites when favoritesOnly is set and selected when
\* selectedOnly is set, each once.
C6_ListReturnsExactlyTheMatchingIdeas ==
  (resp.op = "listTitleIdeas" /\ resp.user \in Users
     /\ Schema(resp.op, resp.input) /\ Owns(resp.user, resp.input.sessionId))
  => LET favoritesOnly == "favoritesOnly" \in DOMAIN resp.input /\ resp.input.favoritesOnly
         selectedOnly == "selectedOnly" \in DOMAIN resp.input /\ resp.input.selectedOnly
         want == {i \in RowsOf(TitleIdeas) :
                    /\ i.sessionId = resp.input.sessionId
                    /\ favoritesOnly => i.isFavorite
                    /\ selectedOnly => i.isSelected}
     IN /\ resp.code = "OK"
        /\ RowsOf(resp.data) = want
        /\ Len(resp.data) = Cardinality(want)

\* C6 witness: with both flags set the list is the one idea that has both, and
\* leaves out an idea of the session that has only one of them.
C6_Witness ==
  /\ resp.op = "listTitleIdeas"
  /\ resp.code = "OK"
  /\ resp.input = [sessionId |-> resp.input.sessionId, favoritesOnly |-> TRUE,
                   selectedOnly |-> TRUE]
  /\ Len(resp.data) = 1
  /\ \E i \in RowsOf(TitleIdeas) :
       /\ i.sessionId = resp.input.sessionId
       /\ i.isFavorite # i.isSelected

\* C6 witness of the scenario: an idea created plain and then updated with
\* isFavorite = true is the whole list of its session under favoritesOnly.
C6_Scenario ==
  /\ resp.op = "listTitleIdeas"
  /\ resp.input = [sessionId |-> "s1", favoritesOnly |-> TRUE]
  /\ Len(resp.data) = 1
  /\ resp.data[1].id = "i1"
  /\ resp.data[1].isFavorite

\* C7 as claimed: a call with no user identity is answered UNAUTHORIZED whatever
\* its input, before any store statement.
C7_UnauthorizedWhateverTheInput ==
  (resp.op # "none" /\ resp.user = NoUser)
  => (resp.code = "UNAUTHORIZED" /\ resp.stmt = "none")

\* C7 amended: a call with no user identity is answered by a step that runs no
\* store statement and changes no row: UNAUTHORIZED when its input passes the
\* action's schema, the validation error when it does not; and no handler of
\* such a call is ever suspended at a store statement.
C7_UnauthorizedAfterValidation ==
  [][/\ (resp'.op # "none" /\ resp'.user = NoUser)
        => /\ resp'.code = IF Schema(resp'.op, resp'.input) THEN "UNAUTHORIZED"
                           ELSE "BAD_REQUEST"
           /\ resp'.stmt = "none"
           /\ resp'.data = <<>>
           /\ TitleSessions' = TitleSessions
           /\ TitleIdeas' = TitleIdeas
     /\ \A h \in BagToSet(pending') : h.user # NoUser
     /\ \A s \in RowsOf(TitleSessions') : s.userId # NoUser]_vars

\* C7 witness: with no identity, an update of an existing idea with a valid input
\* is answered UNAUTHORIZED.
C7_Witness ==
  /\ resp.op = "updateTitleIdea"
  /\ resp.user = NoUser
  /\ resp.code = "UNAUTHORIZED"
  /\ Schema(resp.op, resp.input)
  /\ Matching(resp.input) # {}

\* C8: every stored idea has a non-empty titleText.
C8_TitleTextNeverEmpty ==
  \A i \in RowsOf(TitleIdeas) : i.titleText # ""

\* C9: creating or updating an idea changes isSelected and isFavorite of no other
\* idea.
C9_SelectingLeavesOtherIdeasAlone ==
  [][\A i \in RowsOf(TitleIdeas), j \in RowsOf(TitleIdeas') :
       (/\ i.id = j.id
        /\ ~(resp'.op = "updateTitleIdea" /\ resp'.input.id = i.id))
       => /\ j.isSelected = i.isSelected
          /\ j.isFavorite = i.isFavorite]_vars

\* C9 witness: an update has just selected an idea of a session in which another
\* idea is selected too.
C9_Witness ==
  /\ resp.op = "updateTitleIdea"
  /\ resp.code = "OK"
  /\ "isSelected" \in DOMAIN resp.input
  /\ resp.input.isSelected
  /\ \E i, j \in RowsOf(TitleIdeas) :
       /\ i.id = resp.input.id
       /\ j.id # i.id
       /\ i.sessionId = j.sessionId
       /\ i.isSelected
       /\ j.isSelected

\* C10: an updateTitleIdea that answers OK returns a stored idea with the
\* requested id and sessionId and the supplied values.
C10_UpdateSuccessReturnsTheIdea ==
  (resp.op = "updateTitleIdea" /\ resp.code = "OK")
  => /\ Len(resp.data) = 1
     /\ resp.data[1] \in RowsOf(TitleIdeas)
     /\ resp.data[1].id = resp.input.id
     /\ resp.data[1].sessionId = resp.input.sessionId
     /\ \A f \in DOMAIN resp.input \cap IdeaFields : resp.data[1][f] = resp.input[f]
====
